---- MODULE Spec2Model ----
(***************************************************************************)
(* FCFS shift-assignment engine of the hospital scheduler.                 *)
(*                                                                         *)
(* The persistent store (tables shifts, fcfs_queue, notifications,         *)
(* audit_logs), the broadcast channel and the wall clock are the shared    *)
(* state.  Two request handlers act on it: POST /api/shifts (queue         *)
(* building) and POST /api/fcfs-queue/respond (response resolver).  Every  *)
(* awaited storage call of a handler is one atomic step; the synchronous   *)
(* code that follows the await belongs to the same step.  Steps of         *)
(* different requests interleave freely, and every storage call may throw. *)
(***************************************************************************)
EXTENDS Integers, Sequences, FiniteSets, TLC

(***************************************************************************)
(* Bounds of the model.                                                    *)
(***************************************************************************)
NumReqs == 2          \* respond requests
NumCreates == 1       \* shift-creation requests
MaxTime == 48         \* the clock stops here (hours)
MaxSeniority == 5     \* seniority_years of a candidate that is scored on its own
MaxCalls == 2         \* calls of calculateFCFSScore on one pair of records

(***************************************************************************)
(* Program constants.                                                      *)
(***************************************************************************)
ResponseWindowHours == 24
HoursPerDay == 24

Reqs == 1..NumReqs
Creates == 1..NumCreates

(***************************************************************************)
(* The user directory (table users).  u1 and u2 are the candidates of      *)
(* scenario 1 of the design; u3 is the supervisor who creates shifts; u4   *)
(* is a deactivated member of another department.  last_shift_date is      *)
(* <<t>>, t in hours on the model clock, or <<>> for SQL NULL; skills is   *)
(* <<list>>, or <<>> for a missing or null list.                           *)
(***************************************************************************)
UserOrder == <<"u1", "u2", "u3", "u4">>
UserIds == {UserOrder[i] : i \in 1..Len(UserOrder)}
users ==
  [u \in UserIds |->
     CASE u = "u1" -> [role |-> "staff", department_id |-> "d1", is_active |-> TRUE,
                       skills |-> << <<"ICU", "Emergency">> >>, seniority_years |-> 5,
                       last_shift_date |-> <<0 - 7 * HoursPerDay>>]
       [] u = "u2" -> [role |-> "staff", department_id |-> "d1", is_active |-> TRUE,
                       skills |-> << <<"General">> >>, seniority_years |-> 2,
                       last_shift_date |-> <<>>]
       [] u = "u3" -> [role |-> "supervisor", department_id |-> "d1", is_active |-> TRUE,
                       skills |-> <<>>, seniority_years |-> 0,
                       last_shift_date |-> <<>>]
       [] OTHER    -> [role |-> "staff", department_id |-> "d2", is_active |-> FALSE,
                       skills |-> << <<"ICU">> >>, seniority_years |-> 4,
                       last_shift_date |-> <<>>]]

\* the users who send requests in a run (req.user)
Callers == {"u1", "u2", "u3"}

\* request bodies of POST /api/shifts
DeptIds == {"d1", "d2"}
SkillLists == {<< <<"ICU">> >>}
MinExperience == {3}

VARIABLES
  shifts,         \* table shifts: sequence of rows, id = index
  fcfs_queue,     \* table fcfs_queue: sequence of rows, id = index
  notifications,  \* table notifications: set of <<user_id, shift_id>>
  audit_logs,     \* table audit_logs: set of <<user_id, action, resource_id>>
  broadcasts,     \* events sent to the WebSocket clients: set of <<type, id, response>>
  now,            \* wall clock, hours
  req,            \* respond handlers: position and locals
  responses,      \* answers sent by the respond handlers
  cr,             \* shift-creation handlers: position and locals
  scoring,        \* calls of calculateFCFSScore on their own: arguments and results
  verify,         \* a call of verifyGoogleToken: position, inputs and result
  accounts        \* column role of table users, and the user request in progress

vars == <<shifts, fcfs_queue, notifications, audit_logs, broadcasts, now, req, responses, cr,
          scoring, verify, accounts>>
store == <<shifts, fcfs_queue, notifications, audit_logs, broadcasts>>

Terminal == {"accepted", "declined", "expired"}
Rejections == {"NotFoundOrUnauthorized", "AlreadyResolved", "DeadlinePassed",
               "ShiftAlreadyAssigned"}

(***************************************************************************)
(* calculateFCFSScore, in hundredths of a point.                           *)
(***************************************************************************)
Min(a, b) == IF a < b THEN a ELSE b

SeqToSet(s) == {s[i] : i \in 1..Len(s)}

\* userSkills.filter(skill => requiredSkills.includes(skill)).length
MatchingSkills(userSkills, requiredSkills) ==
  Cardinality({i \in 1..Len(userSkills) : userSkills[i] \in SeqToSet(requiredSkills)})

\* Math.round(x) for x = n / d, d > 0: round half up
RoundDiv(n, d) == (2 * n + d) \div (2 * d)

\* x || [] for a list x that may be missing or null
OrEmpty(x) == IF x = <<>> THEN <<>> ELSE x[1]

\* Variant for the check of C19: seniority counts twice instead of three times
calculateFCFSScore_SeniorityTwice(user, shift, t) ==
  LET seniority == user.seniority_years * 200
      daysSinceLastShift == (t - user.last_shift_date[1]) \div HoursPerDay
      rest == IF user.last_shift_date # <<>>
              THEN Min(daysSinceLastShift * 20, 2000)
              ELSE 2000
      userSkills == OrEmpty(user.skills)
      requiredSkills == OrEmpty(shift.required_skills)
      n == Len(requiredSkills)
      m == MatchingSkills(userSkills, requiredSkills)
  IN  IF n > 0
      THEN RoundDiv((seniority + rest + 2500) * n + m * 2500, n)
      ELSE seniority + rest + 2500

\* Variant for the check of C20: the time since the last shift is not cut
\* down to whole days
calculateFCFSScore_NoFloor(user, shift, t) ==
  LET seniority == user.seniority_years * 300
      rest == IF user.last_shift_date # <<>>
              THEN Min(((t - user.last_shift_date[1]) * 20) \div HoursPerDay, 2000)
              ELSE 2000
      userSkills == OrEmpty(user.skills)
      requiredSkills == OrEmpty(shift.required_skills)
      n == Len(requiredSkills)
      m == MatchingSkills(userSkills, requiredSkills)
  IN  IF n > 0
      THEN RoundDiv((seniority + rest + 2500) * n + m * 2500, n)
      ELSE seniority + rest + 2500

calculateFCFSScore(user, shift, t) ==
  LET seniority == user.seniority_years * 300
      daysSinceLastShift == (t - user.last_shift_date[1]) \div HoursPerDay
      rest == IF user.last_shift_date # <<>>
              THEN Min(daysSinceLastShift * 20, 2000)
              ELSE 2000
      userSkills == OrEmpty(user.skills)
      requiredSkills == OrEmpty(shift.required_skills)
      n == Len(requiredSkills)
      m == MatchingSkills(userSkills, requiredSkills)
  IN  IF n > 0
      THEN RoundDiv((seniority + rest + 2500) * n + m * 2500, n)
      ELSE seniority + rest + 2500

(***************************************************************************)
(* Storage reads.                                                          *)
(***************************************************************************)
\* ORDER BY priority_score DESC, created_at ASC over a set of row ids
RECURSIVE OrderQueue(_)
OrderQueue(S) ==
  IF S = {} THEN <<>>
  ELSE LET first == CHOOSE i \in S : \A j \in S :
                      \/ fcfs_queue[i].priority_score > fcfs_queue[j].priority_score
                      \/ /\ fcfs_queue[i].priority_score = fcfs_queue[j].priority_score
                         /\ i <= j
       IN  <<first>> \o OrderQueue(S \ {first})

\* getFcfsQueue(shift_id?, user_id?): 0 and "none" stand for undefined
getFcfsQueue(shift_id, user_id) ==
  OrderQueue({i \in 1..Len(fcfs_queue) :
                /\ shift_id # 0 => fcfs_queue[i].shift_id = shift_id
                /\ user_id # "none" => fcfs_queue[i].user_id = user_id})

\* Variant for the check of C16: the creator is not excluded
getEligibleUsersForShift_WithCreator(shift) ==
  SelectSeq(UserOrder, LAMBDA u :
              /\ users[u].department_id = shift.department_id
              /\ users[u].is_active)

\* getEligibleUsersForShift: same department, active, not the creator
getEligibleUsersForShift(shift) ==
  SelectSeq(UserOrder, LAMBDA u :
              /\ users[u].department_id = shift.department_id
              /\ users[u].is_active
              /\ u # shift.created_by)

(***************************************************************************)
(* Initial state: empty tables, no request in progress.                    *)
(***************************************************************************)
IdleReq == [pc |-> "idle", user_id |-> "none", queue_id |-> 0, response |-> "none",
            shift_id |-> 0, todo |-> <<>>,
            wrote |-> FALSE, after |-> {}, violated |-> {}, pendingAtAssign |-> {},
            before |-> <<>>, failedAt |-> "none", atDeadline |-> FALSE]

IdleCreate == [pc |-> "idle", user_id |-> "none", shift_id |-> 0,
               eligibleUsers |-> <<>>, responseDeadline |-> 0, outcome |-> "none",
               failedAt |-> "none"]

\* no call of calculateFCFSScore outside a request
NoScoring == [user |-> users["u1"], shift |-> [required_skills |-> <<>>], calls |-> <<>>]

\* no call of verifyGoogleToken
NoData == [email |-> <<>>, sub |-> <<>>]
NoResult == [kind |-> "none", message |-> "none", data |-> NoData]
NoVerify == [pc |-> "idle", NODE_ENV |-> "production", token |-> "none",
             contacted |-> FALSE, seen |-> {}, result |-> NoResult]

\* the accounts as seeded, and no user request
Accounts == {"admin@hospital.dev", "lead@hospital.dev", "nurse@hospital.dev",
             "new@hospital.dev"}
Roles == {"staff", "supervisor", "admin"}
SeededRoles ==
  [a \in Accounts |->
     CASE a = "admin@hospital.dev" -> "admin"
       [] a = "lead@hospital.dev" -> "supervisor"
       [] a = "nurse@hospital.dev" -> "staff"
       [] OTHER -> "none"]
NoRequest == [pc |-> "idle", email |-> "none", role |-> "none", route |-> "none",
              target |-> "none", body_role |-> "absent"]
NoAccounts == [roles |-> SeededRoles, request |-> NoRequest]

Init ==
  /\ shifts = <<>>
  /\ fcfs_queue = <<>>
  /\ notifications = {}
  /\ audit_logs = {}
  /\ broadcasts = {}
  /\ now = 0
  /\ req = [r \in Reqs |-> IdleReq]
  /\ responses = {}
  /\ cr = [c \in Creates |-> IdleCreate]
  /\ scoring = NoScoring
  /\ verify = NoVerify
  /\ accounts = NoAccounts

(***************************************************************************)
(* Row updates.                                                            *)
(***************************************************************************)
\* updateShift(id, updates): UPDATE shifts SET ... WHERE id = id
updateShift(id, status, assigned) ==
  [shifts EXCEPT ![id].status = status, ![id].assigned_user_id = assigned]

\* updateFcfsQueueEntry(id, {status}): UPDATE fcfs_queue SET status WHERE id = id
updateFcfsQueueEntry(id, status) ==
  [fcfs_queue EXCEPT ![id].status = status]

(***************************************************************************)
(* POST /api/shifts: create the shift, then build its queue.               *)
(***************************************************************************)
CreateDone(c, outcome) ==
  cr' = [cr EXCEPT ![c] = [@ EXCEPT !.pc = "done", !.outcome = outcome]]

\* role check, then storage.createShift.  (Handlers are numbered in order of
\* arrival.)  User u creates a shift of department d that requires skills
\* and experience; created_at defaults to the time of the insert.
CreateShift(c, u, d, skills, experience) ==
  /\ cr[c].pc = "idle"
  /\ c > 1 => cr[c - 1].pc # "idle"
  /\ IF users[u].role \notin {"admin", "supervisor"}
     THEN /\ cr' = [cr EXCEPT ![c] = [@ EXCEPT !.pc = "done", !.user_id = u,
                                                 !.outcome = "forbidden"]]
          /\ UNCHANGED shifts
     ELSE /\ shifts' = Append(shifts, [status |-> "available", assigned_user_id |-> "none",
                                       created_by |-> u, department_id |-> d,
                                       required_skills |-> skills,
                                       min_experience_years |-> experience,
                                       created_at |-> now])
          /\ cr' = [cr EXCEPT ![c] = [@ EXCEPT !.pc = "eligible", !.user_id = u,
                                                 !.shift_id = Len(shifts) + 1]]
  /\ UNCHANGED <<fcfs_queue, notifications, audit_logs, broadcasts, now, req, responses, scoring, verify, accounts>>

\* storage.createShift throws: no row is inserted
CreateShiftFails(c, u) ==
  /\ cr[c].pc = "idle"
  /\ c > 1 => cr[c - 1].pc # "idle"
  /\ users[u].role \in {"admin", "supervisor"}
  /\ cr' = [cr EXCEPT ![c] = [@ EXCEPT !.pc = "done", !.user_id = u, !.outcome = "fatal"]]
  /\ UNCHANGED <<store, now, req, responses, scoring, verify, accounts>>

\* storage.getEligibleUsersForShift, then the deadline: now + 24 hours
GetEligible(c) ==
  /\ cr[c].pc = "eligible"
  /\ LET eligible == getEligibleUsersForShift(shifts[cr[c].shift_id])
     IN  cr' = [cr EXCEPT ![c] = [@ EXCEPT
                  !.pc = IF eligible = <<>> THEN "in_queue" ELSE "add",
                  !.eligibleUsers = eligible,
                  !.responseDeadline = now + ResponseWindowHours]]
  /\ UNCHANGED <<store, now, req, responses, scoring, verify, accounts>>

\* Variant for the check of C13: every entry gets a deadline of its own,
\* 24 hours after its insert
AddToFcfsQueue_OwnDeadline(c) ==
  /\ cr[c].pc = "add"
  /\ LET u == Head(cr[c].eligibleUsers)
         shift == shifts[cr[c].shift_id]
     IN  fcfs_queue' = Append(fcfs_queue,
                              [shift_id |-> cr[c].shift_id, user_id |-> u,
                               priority_score |-> calculateFCFSScore(users[u], shift, now),
                               response_deadline |-> now + ResponseWindowHours,
                               status |-> "pending"])
  /\ cr' = [cr EXCEPT ![c].pc = "notify"]
  /\ UNCHANGED <<shifts, notifications, audit_logs, broadcasts, now, req, responses, scoring, verify, accounts>>

\* loop body, first await: storage.addToFcfsQueue for the next eligible user
AddToFcfsQueue(c) ==
  /\ cr[c].pc = "add"
  /\ LET u == Head(cr[c].eligibleUsers)
         shift == shifts[cr[c].shift_id]
     IN  fcfs_queue' = Append(fcfs_queue,
                              [shift_id |-> cr[c].shift_id, user_id |-> u,
                               priority_score |-> calculateFCFSScore(users[u], shift, now),
                               response_deadline |-> cr[c].responseDeadline,
                               status |-> "pending"])
  /\ cr' = [cr EXCEPT ![c].pc = "notify"]
  /\ UNCHANGED <<shifts, notifications, audit_logs, broadcasts, now, req, responses, scoring, verify, accounts>>

\* loop body, second await: storage.createNotification
CreateNotification(c) ==
  /\ cr[c].pc = "notify"
  /\ notifications' = notifications \cup {<<Head(cr[c].eligibleUsers), cr[c].shift_id>>}
  /\ cr' = [cr EXCEPT ![c] = [@ EXCEPT
              !.eligibleUsers = Tail(@),
              !.pc = IF Tail(cr[c].eligibleUsers) = <<>> THEN "in_queue" ELSE "add"]]
  /\ UNCHANGED <<shifts, fcfs_queue, audit_logs, broadcasts, now, req, responses, scoring, verify, accounts>>

\* storage.updateShift(shift.id, {status: 'in_queue'})
SetInQueue(c) ==
  /\ cr[c].pc = "in_queue"
  /\ shifts' = updateShift(cr[c].shift_id, "in_queue", shifts[cr[c].shift_id].assigned_user_id)
  /\ cr' = [cr EXCEPT ![c].pc = "audit"]
  /\ UNCHANGED <<fcfs_queue, notifications, audit_logs, broadcasts, now, req, responses, scoring, verify, accounts>>

\* storage.createAuditLog, broadcast shift_created, sendSuccess
CreateAudit(c, broadcastOk) ==
  /\ cr[c].pc = "audit"
  /\ audit_logs' = audit_logs \cup {<<cr[c].user_id, "CREATE_SHIFT", cr[c].shift_id>>}
  /\ IF broadcastOk
     THEN /\ broadcasts' = broadcasts \cup {<<"shift_created", cr[c].shift_id, "none">>}
          /\ CreateDone(c, "success")
     ELSE /\ UNCHANGED broadcasts
          /\ cr' = [cr EXCEPT ![c] = [@ EXCEPT !.pc = "done", !.outcome = "fatal",
                                                 !.failedAt = "broadcast"]]
  /\ UNCHANGED <<shifts, fcfs_queue, notifications, now, req, responses, scoring, verify, accounts>>

\* a storage call of the creation handler throws: asyncHandler passes the
\* error to the error middleware, the request ends, nothing is undone.
\* (The field failedAt is history: the call that threw.)
CreateFails(c) ==
  /\ cr[c].pc \in {"eligible", "add", "notify", "in_queue", "audit"}
  /\ cr' = [cr EXCEPT ![c] = [@ EXCEPT !.pc = "done", !.outcome = "fatal",
                                         !.failedAt = cr[c].pc]]
  /\ UNCHANGED <<store, now, req, responses, scoring, verify, accounts>>

(***************************************************************************)
(* POST /api/fcfs-queue/respond.                                           *)
(***************************************************************************)
NoEntry == [shift_id |-> 0, user_id |-> "none", priority_score |-> 0,
            response_deadline |-> 0, status |-> "none"]

\* Variant for the check of C8: the entries are read without the user filter
FindQueueEntry_AnyOwner(user_id, queue_id) ==
  IF queue_id \in SeqToSet(getFcfsQueue(0, "none")) THEN fcfs_queue[queue_id] ELSE NoEntry

\* queueEntries.find(entry => entry.id === queue_id) over the caller's entries
FindQueueEntry(user_id, queue_id) ==
  IF queue_id \in SeqToSet(getFcfsQueue(0, user_id)) THEN fcfs_queue[queue_id] ELSE NoEntry

\* Variant for the check of C6: the status check is missing
CheckQueueEntry_NoStatus(queueEntry, t) ==
  IF queueEntry = NoEntry THEN "NotFoundOrUnauthorized"
  ELSE IF t > queueEntry.response_deadline THEN "DeadlinePassed"
  ELSE "ok"

\* Variant for the check of C7: the deadline is checked before the status
CheckQueueEntry_DeadlineFirst(queueEntry, t) ==
  IF queueEntry = NoEntry THEN "NotFoundOrUnauthorized"
  ELSE IF t > queueEntry.response_deadline THEN "DeadlinePassed"
  ELSE IF queueEntry.status # "pending" THEN "AlreadyResolved"
  ELSE "ok"

\* Variant for the check of C9: the deadline check is missing
CheckQueueEntry_NoDeadline(queueEntry, t) ==
  IF queueEntry = NoEntry THEN "NotFoundOrUnauthorized"
  ELSE IF queueEntry.status # "pending" THEN "AlreadyResolved"
  ELSE "ok"

\* Variant for the check of C22: a call at the deadline itself is too late
CheckQueueEntry_AtOrAfter(queueEntry, t) ==
  IF queueEntry = NoEntry THEN "NotFoundOrUnauthorized"
  ELSE IF queueEntry.status # "pending" THEN "AlreadyResolved"
  ELSE IF t >= queueEntry.response_deadline THEN "DeadlinePassed"
  ELSE "ok"

\* the three checks made on the entry that was read, in the order of the code
CheckQueueEntry(queueEntry, t) ==
  IF queueEntry = NoEntry THEN "NotFoundOrUnauthorized"
  ELSE IF queueEntry.status # "pending" THEN "AlreadyResolved"
  ELSE IF t > queueEntry.response_deadline THEN "DeadlinePassed"
  ELSE "ok"

\* Variant for the check of C23: only an assigned shift stops an accept
CheckShift_NotAssigned(shift) ==
  IF shift.status = "assigned" THEN "ShiftAlreadyAssigned" ELSE "ok"

\* the check made on the shift that was read (accept only)
CheckShift(shift) ==
  IF shift.status # "in_queue" THEN "ShiftAlreadyAssigned" ELSE "ok"

\* shifts on which an accept of another user has already returned success
AcceptedBefore(u) ==
  {a.shift_id : a \in {x \in responses : /\ x.outcome = "success"
                                         /\ x.response = "accept"
                                         /\ x.user_id # u}}

\* History kept with a request for the properties below (not program state):
\* the preconditions of the design, by number, that the request violates in
\* the store as it is when the request arrives
Violated(u, queue_id, response) ==
  LET exists == queue_id \in 1..Len(fcfs_queue)
      entry == fcfs_queue[queue_id]
  IN  {n \in 1..4 :
         \/ n = 1 /\ (~exists \/ entry.user_id # u)
         \/ n = 2 /\ exists /\ entry.status # "pending"
         \/ n = 3 /\ exists /\ now > entry.response_deadline
         \/ n = 4 /\ exists /\ response = "accept"
                  /\ shifts[entry.shift_id].status # "in_queue"}

\* the answer goes out and the handler's locals are gone
Answer(h, outcome) ==
  [user_id |-> h.user_id, queue_id |-> h.queue_id, response |-> h.response,
   shift_id |-> h.shift_id, outcome |-> outcome, wrote |-> h.wrote,
   after |-> h.after, violated |-> h.violated,
   pendingAtAssign |-> h.pendingAtAssign, failedAt |-> h.failedAt]

DoneReq == [IdleReq EXCEPT !.pc = "done"]

RespondDone(r, outcome) ==
  /\ req' = [req EXCEPT ![r] = DoneReq]
  /\ responses' = responses \cup {Answer(req[r], outcome)}

\* History kept with a request in progress (not program state): the request
\* is at work on shift s
InFlightOn(h, s) == h.pc \notin {"idle", "done"} /\ h.shift_id = s

\* History kept with a request in progress (not program state): the statuses
\* of the entries of shift s as the request finds them on arrival
StatusesOf(s) ==
  [i \in {j \in 1..Len(fcfs_queue) : fcfs_queue[j].shift_id = s} |-> fcfs_queue[i].status]

\* the request arrives: storage.getFcfsQueue(undefined, req.user.id), find,
\* then the checks on the entry.  (Handlers are numbered in order of arrival.)
\* The field before is history: it holds StatusesOf the shift for as long as
\* no other respond call is at work on the same shift, and <<>> otherwise.
\* The field atDeadline is history: the call arrived exactly at the deadline.
Respond(r, u, queue_id, response) ==
  /\ req[r].pc = "idle"
  /\ r > 1 => req[r - 1].pc # "idle"
  /\ LET queueEntry == FindQueueEntry(u, queue_id)
         check == CheckQueueEntry(queueEntry, now)
         s == queueEntry.shift_id
         others == {q \in Reqs \ {r} : InFlightOn(req[q], s)}
         started == [req[r] EXCEPT !.user_id = u, !.queue_id = queue_id,
                                   !.response = response,
                                   !.shift_id = s,
                                   !.after = AcceptedBefore(u),
                                   !.violated = Violated(u, queue_id, response),
                                   !.atDeadline = (queueEntry.response_deadline = now)]
     IN  IF check # "ok"
         THEN /\ req' = [req EXCEPT ![r] = DoneReq]
              /\ responses' = responses \cup {Answer(started, check)}
         ELSE /\ req' = [q \in Reqs |->
                           IF q = r
                           THEN [started EXCEPT
                                   !.pc = IF response = "accept" THEN "getShift"
                                          ELSE "decline",
                                   !.before = IF others = {} THEN StatusesOf(s) ELSE <<>>]
                           ELSE IF q \in others THEN [req[q] EXCEPT !.before = <<>>]
                           ELSE req[q]]
              /\ UNCHANGED responses
  /\ UNCHANGED <<store, now, cr, scoring, verify, accounts>>

\* the request arrives and the first storage read throws
RespondFails(r, u, queue_id, response) ==
  /\ req[r].pc = "idle"
  /\ r > 1 => req[r - 1].pc # "idle"
  /\ req' = [req EXCEPT ![r] = DoneReq]
  /\ responses' = responses \cup
       {Answer([req[r] EXCEPT !.user_id = u, !.queue_id = queue_id,
                              !.response = response, !.after = AcceptedBefore(u),
                              !.violated = Violated(u, queue_id, response),
                              !.failedAt = "getFcfsQueue"],
               "fatal")}
  /\ UNCHANGED <<store, now, cr, scoring, verify, accounts>>

\* Variant for the check of C10: the entry is marked accepted before the
\* status of the shift is checked
GetShift_WriteFirst(r) ==
  /\ req[r].pc = "getShift"
  /\ req[r].shift_id \in 1..Len(shifts)
  /\ fcfs_queue' = updateFcfsQueueEntry(req[r].queue_id, "accepted")
  /\ IF CheckShift(shifts[req[r].shift_id]) # "ok"
     THEN RespondDone(r, CheckShift(shifts[req[r].shift_id]))
     ELSE /\ req' = [req EXCEPT ![r] = [@ EXCEPT !.pc = "assignShift", !.wrote = TRUE]]
          /\ UNCHANGED responses
  /\ UNCHANGED <<shifts, notifications, audit_logs, broadcasts, now, cr, scoring, verify, accounts>>

\* accept: storage.getShift(queueEntry.shift_id) and the check of its status
GetShift(r) ==
  /\ req[r].pc = "getShift"
  /\ IF req[r].shift_id \notin 1..Len(shifts)
     THEN RespondDone(r, "ShiftNotFound")
     ELSE IF CheckShift(shifts[req[r].shift_id]) # "ok"
     THEN RespondDone(r, CheckShift(shifts[req[r].shift_id]))
     ELSE /\ req' = [req EXCEPT ![r].pc = "acceptEntry"]
          /\ UNCHANGED responses
  /\ UNCHANGED <<store, now, cr, scoring, verify, accounts>>

\* accept: storage.updateFcfsQueueEntry(queue_id, {status: 'accepted'})
AcceptEntry(r) ==
  /\ req[r].pc = "acceptEntry"
  /\ fcfs_queue' = updateFcfsQueueEntry(req[r].queue_id, "accepted")
  /\ req' = [req EXCEPT ![r] = [@ EXCEPT !.pc = "assignShift", !.wrote = TRUE]]
  /\ UNCHANGED responses
  /\ UNCHANGED <<shifts, notifications, audit_logs, broadcasts, now, cr, scoring, verify, accounts>>

\* accept: storage.updateShift(shift.id, {status: 'assigned', assigned_user_id})
AssignShift(r) ==
  /\ req[r].pc = "assignShift"
  /\ shifts' = updateShift(req[r].shift_id, "assigned", req[r].user_id)
  /\ req' = [req EXCEPT ![r] = [@ EXCEPT
               !.pc = "readQueue", !.wrote = TRUE,
               !.pendingAtAssign = {i \in 1..Len(fcfs_queue) :
                                      /\ fcfs_queue[i].shift_id = req[r].shift_id
                                      /\ i # req[r].queue_id
                                      /\ fcfs_queue[i].status = "pending"}]]
  /\ UNCHANGED responses
  /\ UNCHANGED <<fcfs_queue, notifications, audit_logs, broadcasts, now, cr, scoring, verify, accounts>>

\* Variant for the check of C11: the loop visits every other entry of the
\* shift, whatever its status
ReadQueue_AllOthers(r) ==
  /\ req[r].pc = "readQueue"
  /\ LET allQueueEntries == getFcfsQueue(req[r].shift_id, "none")
         todo == SelectSeq(allQueueEntries, LAMBDA i : i # req[r].queue_id)
     IN  req' = [req EXCEPT ![r] = [@ EXCEPT
                   !.todo = todo,
                   !.pc = IF todo = <<>> THEN "audit" ELSE "cascade"]]
  /\ UNCHANGED responses
  /\ UNCHANGED <<store, now, cr, scoring, verify, accounts>>

\* accept: storage.getFcfsQueue(shift.id); the loop will visit the entries
\* that this read shows as pending, other than the caller's
ReadQueue(r) ==
  /\ req[r].pc = "readQueue"
  /\ LET allQueueEntries == getFcfsQueue(req[r].shift_id, "none")
         todo == SelectSeq(allQueueEntries, LAMBDA i :
                             i # req[r].queue_id /\ fcfs_queue[i].status = "pending")
     IN  req' = [req EXCEPT ![r] = [@ EXCEPT
                   !.todo = todo,
                   !.pc = IF todo = <<>> THEN "audit" ELSE "cascade"]]
  /\ UNCHANGED responses
  /\ UNCHANGED <<store, now, cr, scoring, verify, accounts>>

\* accept, loop body: storage.updateFcfsQueueEntry(entry.id, {status: 'expired'})
Cascade(r) ==
  /\ req[r].pc = "cascade"
  /\ fcfs_queue' = updateFcfsQueueEntry(Head(req[r].todo), "expired")
  /\ req' = [req EXCEPT ![r] = [@ EXCEPT
               !.todo = Tail(@), !.wrote = TRUE,
               !.pc = IF Tail(req[r].todo) = <<>> THEN "audit" ELSE "cascade"]]
  /\ UNCHANGED responses
  /\ UNCHANGED <<shifts, notifications, audit_logs, broadcasts, now, cr, scoring, verify, accounts>>

\* decline: storage.updateFcfsQueueEntry(queue_id, {status: 'declined'})
Decline(r) ==
  /\ req[r].pc = "decline"
  /\ fcfs_queue' = updateFcfsQueueEntry(req[r].queue_id, "declined")
  /\ req' = [req EXCEPT ![r] = [@ EXCEPT !.pc = "audit", !.wrote = TRUE]]
  /\ UNCHANGED responses
  /\ UNCHANGED <<shifts, notifications, audit_logs, broadcasts, now, cr, scoring, verify, accounts>>

\* storage.createAuditLog, broadcast fcfs_response, res.json; a throwing
\* broadcast is caught by the handler's catch like any other error
RespondAudit(r, broadcastOk) ==
  /\ req[r].pc = "audit"
  /\ audit_logs' = audit_logs \cup
       {<<req[r].user_id, IF req[r].response = "accept" THEN "FCFS_ACCEPT"
                          ELSE "FCFS_DECLINE", req[r].queue_id>>}
  /\ IF broadcastOk
     THEN /\ broadcasts' = broadcasts \cup {<<"fcfs_response", req[r].queue_id, req[r].response>>}
          /\ RespondDone(r, "success")
     ELSE /\ UNCHANGED broadcasts
          /\ req' = [req EXCEPT ![r] = DoneReq]
          /\ responses' = responses \cup
               {Answer([req[r] EXCEPT !.failedAt = "broadcast"], "fatal")}
  /\ UNCHANGED <<shifts, fcfs_queue, notifications, now, cr, scoring, verify, accounts>>

\* Variant for the check of C25: a storage call that throws is tried again
StorageFails_Retry(r) ==
  /\ req[r].pc \in {"getShift", "acceptEntry", "assignShift", "readQueue",
                    "cascade", "decline", "audit"}
  /\ req' = [req EXCEPT ![r].failedAt = req[r].pc]
  /\ UNCHANGED <<store, now, responses, cr, scoring, verify, accounts>>

\* a storage call of the respond handler throws: the catch answers 500.
\* (The field failedAt is history: the call that threw.)
StorageFails(r) ==
  /\ req[r].pc \in {"getShift", "acceptEntry", "assignShift", "readQueue",
                    "cascade", "decline", "audit"}
  /\ req' = [req EXCEPT ![r] = DoneReq]
  /\ responses' = responses \cup {Answer([req[r] EXCEPT !.failedAt = req[r].pc], "fatal")}
  /\ UNCHANGED <<store, now, cr, scoring, verify, accounts>>

(***************************************************************************)
(* The clock.  It advances in steps of the response window, so that a      *)
(* request can be evaluated before, at and after a deadline.               *)
(***************************************************************************)
Tick ==
  /\ now + ResponseWindowHours <= MaxTime
  /\ now' = now + ResponseWindowHours
  /\ UNCHANGED <<store, req, responses, cr, scoring, verify, accounts>>

Next ==
  \/ \E c \in Creates, u \in Callers, d \in DeptIds, skills \in SkillLists,
        experience \in MinExperience : CreateShift(c, u, d, skills, experience)
  \/ \E c \in Creates, u \in Callers : CreateShiftFails(c, u)
  \/ \E c \in Creates : GetEligible(c)
  \/ \E c \in Creates : AddToFcfsQueue(c)
  \/ \E c \in Creates : CreateNotification(c)
  \/ \E c \in Creates : SetInQueue(c)
  \/ \E c \in Creates, broadcastOk \in BOOLEAN : CreateAudit(c, broadcastOk)
  \/ \E c \in Creates : CreateFails(c)
  \/ \E r \in Reqs, u \in Callers, queue_id \in 1..Len(fcfs_queue) + 1,
        response \in {"accept", "decline"} : Respond(r, u, queue_id, response)
  \/ \E r \in Reqs, u \in Callers, queue_id \in 1..Len(fcfs_queue) + 1,
        response \in {"accept", "decline"} : RespondFails(r, u, queue_id, response)
  \/ \E r \in Reqs : GetShift(r)
  \/ \E r \in Reqs : AcceptEntry(r)
  \/ \E r \in Reqs : AssignShift(r)
  \/ \E r \in Reqs : ReadQueue(r)
  \/ \E r \in Reqs : Cascade(r)
  \/ \E r \in Reqs : Decline(r)
  \/ \E r \in Reqs, broadcastOk \in BOOLEAN : RespondAudit(r, broadcastOk)
  \/ \E r \in Reqs : StorageFails(r)
  \/ Tick

Spec == Init /\ [][Next]_vars

(***************************************************************************)
(* calculateFCFSScore on its own: a candidate record and a shift record    *)
(* are fixed at the start, and the function is called on them at moments   *)
(* of the wall clock, which advances by half a day at a time.              *)
(***************************************************************************)
\* user.skills: missing or null, empty, the lists of the tests, a repeated skill
CandidateSkills ==
  {<<>>, << <<>> >>, << <<"ICU", "Emergency">> >>, << <<"General">> >>,
   << <<"ICU", "ICU">> >>}

\* shift.required_skills: missing or null, and the lists of the tests
RequiredSkills ==
  {<<>>, << <<"ICU">> >>, << <<"ICU", "Pediatric">> >>, << <<"General">> >>}

\* user.last_shift_date: never worked; 7 days, 7 days and 6 hours, 100 days
\* and 101 days before the start; one day after the start
LastShiftDates ==
  {<<>>, <<0 - 7 * HoursPerDay>>, <<0 - 7 * HoursPerDay - 6>>,
   <<0 - 100 * HoursPerDay>>, <<0 - 101 * HoursPerDay>>, <<HoursPerDay>>}

ScoreInit ==
  /\ shifts = <<>>
  /\ fcfs_queue = <<>>
  /\ notifications = {}
  /\ audit_logs = {}
  /\ broadcasts = {}
  /\ now = 0
  /\ req = [r \in Reqs |-> IdleReq]
  /\ responses = {}
  /\ cr = [c \in Creates |-> IdleCreate]
  /\ \E seniority \in 0..MaxSeniority, last \in LastShiftDates,
        skills \in CandidateSkills, required \in RequiredSkills :
       scoring = [user |-> [seniority_years |-> seniority, last_shift_date |-> last,
                            skills |-> skills],
                  shift |-> [required_skills |-> required],
                  calls |-> <<>>]
  /\ verify = NoVerify
  /\ accounts = NoAccounts

\* const score = calculateFCFSScore(user, shift), made at the present time
ScoreCall ==
  /\ Len(scoring.calls) < MaxCalls
  /\ scoring' = [scoring EXCEPT !.calls =
                   Append(@, [t |-> now,
                              score |-> calculateFCFSScore(scoring.user, scoring.shift, now)])]
  /\ UNCHANGED <<store, now, req, responses, cr, verify, accounts>>

\* half a day passes
ScoreTick ==
  /\ now + HoursPerDay \div 2 <= MaxTime
  /\ now' = now + HoursPerDay \div 2
  /\ UNCHANGED <<store, req, responses, cr, scoring, verify, accounts>>

ScoreNext == ScoreCall \/ ScoreTick

ScoreSpec == ScoreInit /\ [][ScoreNext]_vars

(***************************************************************************)
(* verifyGoogleToken on its own.  The environment and the token are fixed  *)
(* at the start; the network and Google's tokeninfo endpoint answer as     *)
(* they please.  A field of the payload is <<v>>, or <<>> when absent.     *)
(***************************************************************************)
Envs == {"development", "production", "test"}
Tokens == {"dev-token", "valid-token", "invalid-token", "timeout-token"}

\* JSON bodies of the tokeninfo endpoint
Payloads ==
  [email : {<<>>, <<"">>, <<"nurse@hospital.dev">>}, sub : {<<>>, <<"">>, <<"google-123">>}]

DevPayload == [email |-> <<"admin@hospital.dev">>, sub |-> <<"dev-user-123">>]

\* !x for a field that may be absent
Falsy(x) == x = <<>> \/ x = <<"">>

\* the tables and the handlers of the FCFS engine at rest
EngineAtRest ==
  /\ shifts = <<>>
  /\ fcfs_queue = <<>>
  /\ notifications = {}
  /\ audit_logs = {}
  /\ broadcasts = {}
  /\ now = 0
  /\ req = [r \in Reqs |-> IdleReq]
  /\ responses = {}
  /\ cr = [c \in Creates |-> IdleCreate]
  /\ scoring = NoScoring

AuthInit ==
  /\ EngineAtRest
  /\ accounts = NoAccounts
  /\ \E env \in Envs, token \in Tokens :
       verify = [NoVerify EXCEPT !.NODE_ENV = env, !.token = token]

\* Variant for the check of C21: the fixed token is accepted in every
\* environment
DevBypass_AnyEnv(env, token) == token = "dev-token"

\* process.env.NODE_ENV === 'development' && token === 'dev-token'
DevBypass(env, token) == env = "development" /\ token = "dev-token"

\* an error thrown inside the outer try: the outer catch logs it and throws
\* new Error('Token verification failed').  (The field seen is history: what
\* went wrong.)
VerifyRejects(what) ==
  verify' = [verify EXCEPT !.pc = "done", !.seen = @ \cup {what},
                           !.result = [kind |-> "rejected",
                                       message |-> "Token verification failed",
                                       data |-> NoData]]

\* the call starts: the development bypass, or the fetch is sent
VerifyStart ==
  /\ verify.pc = "idle"
  /\ IF DevBypass(verify.NODE_ENV, verify.token)
     THEN verify' = [verify EXCEPT !.pc = "done",
                                   !.result = [kind |-> "returned", message |-> "none",
                                               data |-> DevPayload]]
     ELSE verify' = [verify EXCEPT !.pc = "fetch", !.contacted = TRUE]
  /\ UNCHANGED <<store, now, req, responses, cr, scoring, accounts>>

\* await fetch(...) rejects: network error, or abort after the timeout
FetchFails(what) ==
  /\ verify.pc = "fetch"
  /\ VerifyRejects(what)
  /\ UNCHANGED <<store, now, req, responses, cr, scoring, accounts>>

\* await fetch(...) resolves; if (!response.ok) throw
FetchReturns(ok) ==
  /\ verify.pc = "fetch"
  /\ IF ok THEN verify' = [verify EXCEPT !.pc = "json"] ELSE VerifyRejects("not_ok")
  /\ UNCHANGED <<store, now, req, responses, cr, scoring, accounts>>

\* await response.json() rejects
JsonFails ==
  /\ verify.pc = "json"
  /\ VerifyRejects("no_json")
  /\ UNCHANGED <<store, now, req, responses, cr, scoring, accounts>>

\* await response.json() resolves; if (!data.email || !data.sub) throw;
\* return data
JsonReturns(data) ==
  /\ verify.pc = "json"
  /\ IF Falsy(data.email) \/ Falsy(data.sub)
     THEN verify' = [verify EXCEPT !.pc = "done", !.seen = @ \cup {"lacking"},
                                   !.result = [kind |-> "rejected",
                                               message |-> "Token verification failed",
                                               data |-> data]]
     ELSE verify' = [verify EXCEPT !.pc = "done",
                                   !.result = [kind |-> "returned", message |-> "none",
                                               data |-> data]]
  /\ UNCHANGED <<store, now, req, responses, cr, scoring, accounts>>

AuthNext ==
  \/ VerifyStart
  \/ \E what \in {"network_error", "timeout"} : FetchFails(what)
  \/ \E ok \in BOOLEAN : FetchReturns(ok)
  \/ JsonFails
  \/ \E data \in Payloads : JsonReturns(data)

AuthSpec == AuthInit /\ [][AuthNext]_vars

(***************************************************************************)
(* The user routes.  accounts.roles is the role column of the users table  *)
(* by email ("none": no such user); accounts.request is the one request in *)
(* progress: req.user (email and role as requireAuth found them), the      *)
(* route, the user the request is about and the role in its body           *)
(* ("absent": the body has no role).                                       *)
(***************************************************************************)
UserRoutes == {"PUT /api/users/me", "POST /api/users", "PUT /api/users/:id"}
BodyRoles == Roles \cup {"absent"}

AccountInit ==
  /\ EngineAtRest
  /\ verify = NoVerify
  /\ accounts = NoAccounts

\* getUserByEmail, then createUser with the default role, or updateUser with
\* role admin for admin@hospital.dev; yields the role column afterwards
SignIn(roles, email) ==
  IF roles[email] = "none"
  THEN [roles EXCEPT ![email] = IF email = "admin@hospital.dev" THEN "admin" ELSE "staff"]
  ELSE IF email = "admin@hospital.dev" /\ roles[email] # "admin"
  THEN [roles EXCEPT ![email] = "admin"]
  ELSE roles

\* requireAuth for a request on one of the user routes, token verified as email
RequireAuth(email, route, target, body_role) ==
  /\ accounts.request.pc = "idle"
  /\ route = "POST /api/users" => body_role \in Roles
  /\ route = "PUT /api/users/me" => target = email
  /\ accounts' = [roles |-> SignIn(accounts.roles, email),
                  request |-> [pc |-> "handler", email |-> email,
                               role |-> SignIn(accounts.roles, email)[email],
                               route |-> route, target |-> target,
                               body_role |-> body_role]]
  /\ UNCHANGED <<store, now, req, responses, cr, scoring, verify>>

\* POST /api/auth/verify, token verified as email
AuthVerify(email) ==
  /\ accounts.request.pc = "idle"
  /\ accounts' = [accounts EXCEPT !.roles = SignIn(accounts.roles, email)]
  /\ UNCHANGED <<store, now, req, responses, cr, scoring, verify>>

\* storage.updateUser(id, updates): .set({...updates, updated_at})
updateUser(roles, email, body_role) ==
  IF body_role = "absent" \/ roles[email] = "none" THEN roles
  ELSE [roles EXCEPT ![email] = body_role]

\* PUT /api/users/me: storage.updateUser(req.user.id, req.body)
UpdateMe ==
  /\ accounts.request.pc = "handler"
  /\ accounts.request.route = "PUT /api/users/me"
  /\ accounts' = [roles |-> updateUser(accounts.roles, accounts.request.email,
                                       accounts.request.body_role),
                  request |-> NoRequest]
  /\ UNCHANGED <<store, now, req, responses, cr, scoring, verify>>

\* POST /api/users: forbidden unless req.user.role is admin; conflict when the
\* email exists; else storage.createUser(req.body)
CreateUser ==
  /\ accounts.request.pc = "handler"
  /\ accounts.request.route = "POST /api/users"
  /\ accounts' = [roles |-> IF /\ accounts.request.role = "admin"
                               /\ accounts.roles[accounts.request.target] = "none"
                            THEN [accounts.roles EXCEPT ![accounts.request.target] =
                                    accounts.request.body_role]
                            ELSE accounts.roles,
                  request |-> NoRequest]
  /\ UNCHANGED <<store, now, req, responses, cr, scoring, verify>>

\* PUT /api/users/:id: forbidden unless req.user.role is admin; else
\* storage.updateUser(req.params.id, req.body)
UpdateUser ==
  /\ accounts.request.pc = "handler"
  /\ accounts.request.route = "PUT /api/users/:id"
  /\ accounts' = [roles |-> IF accounts.request.role = "admin"
                            THEN updateUser(accounts.roles, accounts.request.target,
                                            accounts.request.body_role)
                            ELSE accounts.roles,
                  request |-> NoRequest]
  /\ UNCHANGED <<store, now, req, responses, cr, scoring, verify>>

AccountNext ==
  \/ \E email \in Accounts, route \in UserRoutes, target \in Accounts,
        body_role \in BodyRoles : RequireAuth(email, route, target, body_role)
  \/ \E email \in Accounts : AuthVerify(email)
  \/ UpdateMe
  \/ CreateUser
  \/ UpdateUser

AccountSpec == AccountInit /\ [][AccountNext]_vars

(***************************************************************************)
(* Two shifts of one department.  The handlers of the FCFS engine never    *)
(* read a shift's start_time and end_time, so the rows above leave them    *)
(* out; here the rows carry them.  The initial state is the one that two   *)
(* completed POST /api/shifts requests of supervisor u3 leave behind: both *)
(* shifts in_queue, one pending entry per eligible user and shift.         *)
(***************************************************************************)
\* start_time and end_time of the second shift, in hours: the window of the
\* first shift, a window that begins inside it, and the window next to it
Windows == {<<56, 64>>, <<60, 68>>, <<64, 72>>}

BookedShift(window) ==
  [status |-> "in_queue", assigned_user_id |-> "none", created_by |-> "u3",
   department_id |-> "d1", required_skills |-> << <<"ICU">> >>,
   min_experience_years |-> 3, created_at |-> 0,
   start_time |-> window[1], end_time |-> window[2]]

BookedEntry(s, u, shift) ==
  [shift_id |-> s, user_id |-> u,
   priority_score |-> calculateFCFSScore(users[u], shift, 0),
   response_deadline |-> ResponseWindowHours, status |-> "pending"]

BookingInit ==
  /\ \E window \in Windows :
       /\ shifts = <<BookedShift(<<56, 64>>), BookedShift(window)>>
       /\ fcfs_queue =
            LET eligible == getEligibleUsersForShift(BookedShift(window))
            IN  [i \in 1..2 * Len(eligible) |->
                   IF i <= Len(eligible)
                   THEN BookedEntry(1, eligible[i], BookedShift(<<56, 64>>))
                   ELSE BookedEntry(2, eligible[i - Len(eligible)], BookedShift(window))]
  /\ notifications = {<<u, s>> : u \in SeqToSet(getEligibleUsersForShift(BookedShift(<<56, 64>>))),
                                 s \in 1..2}
  /\ audit_logs = {<<"u3", "CREATE_SHIFT", s>> : s \in 1..2}
  /\ broadcasts = {<<"shift_created", s, "none">> : s \in 1..2}
  /\ now = 0
  /\ req = [r \in Reqs |-> IdleReq]
  /\ responses = {}
  /\ cr = [c \in Creates |-> [IdleCreate EXCEPT !.pc = "done", !.user_id = "u3",
                                                !.shift_id = 2,
                                                !.responseDeadline = ResponseWindowHours,
                                                !.outcome = "success"]]
  /\ scoring = NoScoring
  /\ verify = NoVerify
  /\ accounts = NoAccounts

BookingNext ==
  \/ \E r \in Reqs, u \in Callers, queue_id \in 1..Len(fcfs_queue) + 1,
        response \in {"accept", "decline"} : Respond(r, u, queue_id, response)
  \/ \E r \in Reqs, u \in Callers, queue_id \in 1..Len(fcfs_queue) + 1,
        response \in {"accept", "decline"} : RespondFails(r, u, queue_id, response)
  \/ \E r \in Reqs : GetShift(r)
  \/ \E r \in Reqs : AcceptEntry(r)
  \/ \E r \in Reqs : AssignShift(r)
  \/ \E r \in Reqs : ReadQueue(r)
  \/ \E r \in Reqs : Cascade(r)
  \/ \E r \in Reqs : Decline(r)
  \/ \E r \in Reqs, broadcastOk \in BOOLEAN : RespondAudit(r, broadcastOk)
  \/ \E r \in Reqs : StorageFails(r)

BookingSpec == BookingInit /\ [][BookingNext]_vars

(***************************************************************************)
(* Vocabulary of the properties.                                           *)
(***************************************************************************)
EntryIds == 1..Len(fcfs_queue)
ShiftIds == 1..Len(shifts)
EntriesOf(s) == {i \in EntryIds : fcfs_queue[i].shift_id = s}

\* every respond request of the run has been answered
AllAnswered == \A r \in Reqs : req[r].pc = "done"

\* answers to accept calls that found the caller's own entry of shift s
AcceptAnswers(s) == {a \in responses : a.response = "accept" /\ a.shift_id = s}

\* name of the failure that belongs to a precondition number
FailureOf(n) ==
  CASE n = 1 -> "NotFoundOrUnauthorized"
    [] n = 2 -> "AlreadyResolved"
    [] n = 3 -> "DeadlinePassed"
    [] OTHER -> "ShiftAlreadyAssigned"

First(S) == CHOOSE n \in S : \A m \in S : n <= m

(***************************************************************************)
(* C1 (single winner): among the accept calls on distinct entries of one   *)
(* shift that passed the checks on their entry, exactly one returns        *)
(* success and the others return ShiftAlreadyAssigned; in particular no    *)
(* two of them return success.  The code violates it.                      *)
(***************************************************************************)
C1_SingleWinner ==
  \A s \in ShiftIds :
    LET calls == {a \in AcceptAnswers(s) : a.outcome \in {"success", "ShiftAlreadyAssigned"}}
        winners == {a.queue_id : a \in {x \in calls : x.outcome = "success"}}
    IN  winners # {} => Cardinality(winners) = 1

(***************************************************************************)
(* C2: at most one queue entry of a shift has status accepted.  The code   *)
(* violates it.                                                            *)
(***************************************************************************)
C2_AtMostOneAccepted ==
  \A s \in ShiftIds :
    Cardinality({i \in EntriesOf(s) : fcfs_queue[i].status = "accepted"}) <= 1

(***************************************************************************)
(* C3 (monotonic status): an entry whose status is accepted, declined or   *)
(* expired keeps that status in every step.  The code violates it.         *)
(***************************************************************************)
C3_MonotonicStatus ==
  [][\A i \in EntryIds :
       fcfs_queue[i].status \in Terminal =>
         fcfs_queue'[i].status = fcfs_queue[i].status]_vars

(***************************************************************************)
(* C4 (accept atomicity): in every state, an entry is accepted only if its *)
(* shift is assigned to that entry's candidate.  The code violates it.     *)
(***************************************************************************)
C4_AcceptAtomic ==
  \A i \in EntryIds :
    fcfs_queue[i].status = "accepted" =>
      /\ shifts[fcfs_queue[i].shift_id].status = "assigned"
      /\ shifts[fcfs_queue[i].shift_id].assigned_user_id = fcfs_queue[i].user_id

(***************************************************************************)
(* C5 (cascade completeness), as the final result of a run: once every     *)
(* request has been answered, each entry that was pending when a           *)
(* successful accept assigned the shift is expired, and no entry of that   *)
(* shift is pending.  The code violates it.                                *)
(***************************************************************************)
C5_CascadeComplete ==
  \A a \in responses :
    (AllAnswered /\ a.response = "accept" /\ a.outcome = "success") =>
      /\ \A i \in a.pendingAtAssign : fcfs_queue[i].status = "expired"
      /\ \A i \in EntriesOf(a.shift_id) : fcfs_queue[i].status # "pending"

(***************************************************************************)
(* C6: an accept that arrives after another candidate's accept on the same *)
(* shift has returned success.                                             *)
(***************************************************************************)
LaterAccepts ==
  {a \in responses : /\ a.response = "accept"
                     /\ a.shift_id \in a.after
                     /\ a.outcome # "fatal"}

\* C6 as claimed: such an accept fails with ShiftAlreadyAssigned.
C6_LaterAcceptShiftAssigned ==
  \A a \in LaterAccepts : a.outcome = "ShiftAlreadyAssigned"

\* C6 as amended: such an accept fails with AlreadyResolved, because the
\* caller's entry has left pending by then and the status check comes
\* before the shift check.
C6_LaterAcceptAlreadyResolved ==
  \A a \in LaterAccepts : a.outcome = "AlreadyResolved"

C6_Witness ==
  \E a \in LaterAccepts :
    /\ a.outcome = "AlreadyResolved"
    /\ fcfs_queue[a.queue_id].status = "expired"
    /\ shifts[a.shift_id].status = "assigned"

(***************************************************************************)
(* C7 (precondition order): a call that violates several preconditions on  *)
(* arrival is answered with the failure of the first one.                  *)
(***************************************************************************)
C7_PreconditionOrder ==
  \A a \in responses :
    (a.outcome # "fatal" /\ Cardinality(a.violated) >= 2) =>
      a.outcome = FailureOf(First(a.violated))

\* an accept on an expired entry of an assigned shift, after the deadline
C7_Witness ==
  \E a \in responses :
    /\ a.violated = {2, 3, 4}
    /\ a.outcome = "AlreadyResolved"
    /\ fcfs_queue[a.queue_id].status = "expired"

(***************************************************************************)
(* C8 (ownership): a call on an entry that does not exist or belongs to    *)
(* another candidate is answered NotFoundOrUnauthorized, whatever the      *)
(* state of the entry and of its shift.                                    *)
(***************************************************************************)
C8_Ownership ==
  \A a \in responses :
    (a.outcome # "fatal" /\ 1 \in a.violated) =>
      /\ a.outcome = "NotFoundOrUnauthorized"
      /\ ~a.wrote

\* a stranger's call on a pending, unexpired entry of an in_queue shift, and
\* a call on an id that names no entry
C8_Witness ==
  /\ \E a \in responses :
       /\ a.violated = {1}
       /\ a.queue_id \in EntryIds
       /\ fcfs_queue[a.queue_id].user_id # a.user_id
       /\ a.outcome = "NotFoundOrUnauthorized"
  /\ \E a \in responses :
       /\ a.queue_id \notin EntryIds
       /\ a.outcome = "NotFoundOrUnauthorized"

(***************************************************************************)
(* C9 (deadline): a call by the owner that is evaluated after the entry's  *)
(* deadline.                                                               *)
(***************************************************************************)
LateOwnerCalls ==
  {a \in responses : a.outcome # "fatal" /\ 1 \notin a.violated /\ 3 \in a.violated}

\* C9 as claimed: it always fails with DeadlinePassed.
C9_LateIsDeadlinePassed ==
  \A a \in LateOwnerCalls : a.outcome = "DeadlinePassed" /\ ~a.wrote

\* C9 as amended: it fails with DeadlinePassed when the entry is still
\* pending and with AlreadyResolved when it is not, and never writes.
C9_LateIsRejected ==
  \A a \in LateOwnerCalls :
    /\ a.outcome = (IF 2 \in a.violated THEN "AlreadyResolved" ELSE "DeadlinePassed")
    /\ ~a.wrote

C9_Witness ==
  \E a \in LateOwnerCalls :
    /\ a.violated = {3}
    /\ a.outcome = "DeadlinePassed"
    /\ fcfs_queue[a.queue_id].status = "pending"
    /\ shifts[a.shift_id].status = "in_queue"

(***************************************************************************)
(* C10 (no change on rejection): a call answered with one of the four      *)
(* failures has written nothing, and the step that answers it leaves the   *)
(* tables and the broadcast channel as they were.                          *)
(***************************************************************************)
C10_RejectionWritesNothing ==
  /\ [](\A a \in responses : a.outcome \in Rejections => ~a.wrote)
  /\ [][(\E a \in responses' \ responses : a.outcome \in Rejections) =>
          UNCHANGED store]_vars

C10_Witness ==
  /\ \E a \in responses : a.outcome = "ShiftAlreadyAssigned"
  /\ \E a \in responses : a.outcome \in {"DeadlinePassed", "AlreadyResolved"}

(***************************************************************************)
(* C11 (accept effect): an accept by the owner of a pending, unexpired     *)
(* entry of an in_queue shift, run with no other respond call at work on   *)
(* that shift, has the following result once its writes are done: the      *)
(* caller's entry is accepted, the shift is assigned to the caller, every   *)
(* other entry of the shift that was pending is expired and every entry     *)
(* that was declined is still declined.                                    *)
(***************************************************************************)
AcceptsDoneAlone ==
  {r \in Reqs : /\ req[r].pc = "audit"
                /\ req[r].response = "accept"
                /\ req[r].violated = {}
                /\ req[r].before # <<>>}

C11_AcceptEffect ==
  \A r \in AcceptsDoneAlone :
    LET h == req[r]
    IN  /\ fcfs_queue[h.queue_id].status = "accepted"
        /\ shifts[h.shift_id].status = "assigned"
        /\ shifts[h.shift_id].assigned_user_id = h.user_id
        /\ \A i \in EntriesOf(h.shift_id) \ {h.queue_id} :
             /\ h.before[i] = "pending" => fcfs_queue[i].status = "expired"
             /\ h.before[i] = "declined" => fcfs_queue[i].status = "declined"

\* such an accept has expired the pending entry of the other candidate
C11_Witness ==
  \E r \in AcceptsDoneAlone :
    \E i \in EntriesOf(req[r].shift_id) \ {req[r].queue_id} :
      /\ req[r].before[i] = "pending"
      /\ fcfs_queue[i].status = "expired"
      /\ shifts[req[r].shift_id].assigned_user_id = req[r].user_id

(***************************************************************************)
(* C12 (decline frame): the write of a decline takes the caller's entry    *)
(* from pending to declined and changes nothing else: the shifts table     *)
(* (status and assigned user of the parent shift included) and every other *)
(* entry, of this and of any other shift, stay as they were.  The code     *)
(* violates it: the entry need not be pending any more when it is written. *)
(***************************************************************************)
DeclineWrite(r) == req[r].pc = "decline" /\ req'[r].pc = "audit"

C12_DeclineFrame ==
  [][\A r \in Reqs :
       DeclineWrite(r) =>
         /\ fcfs_queue[req[r].queue_id].status = "pending"
         /\ fcfs_queue' = [fcfs_queue EXCEPT ![req[r].queue_id].status = "declined"]
         /\ shifts' = shifts]_vars

\* the frame alone: whatever the entry's status was, only that status changes
DeclineFrameOnly ==
  [][\A r \in Reqs :
       DeclineWrite(r) =>
         /\ fcfs_queue' = [fcfs_queue EXCEPT ![req[r].queue_id].status = "declined"]
         /\ shifts' = shifts]_vars

(***************************************************************************)
(* Vocabulary of the properties of queue building.                         *)
(***************************************************************************)
\* the candidates of shift s by the rule of the design: active, of the
\* shift's department, not its creator
EligibleSet(s) ==
  {u \in UserIds : /\ users[u].is_active
                   /\ users[u].department_id = shifts[s].department_id
                   /\ u # shifts[s].created_by}

\* creation requests that completed successfully for a shift with candidates
CreatedOk ==
  {c \in Creates : /\ cr[c].pc = "done"
                   /\ cr[c].outcome = "success"
                   /\ EligibleSet(cr[c].shift_id) # {}}

\* exactly one entry of shift s per candidate, and none for anybody else
OnePerCandidate(s) ==
  /\ \A u \in EligibleSet(s) :
       Cardinality({i \in EntriesOf(s) : fcfs_queue[i].user_id = u}) = 1
  /\ \A i \in EntriesOf(s) : fcfs_queue[i].user_id \in EligibleSet(s)

\* the entries of shift s share one deadline, 24 hours after a moment of the
\* creation request
SharedDeadline(s) ==
  \E t \in shifts[s].created_at..now :
    \A i \in EntriesOf(s) : fcfs_queue[i].response_deadline = t + ResponseWindowHours

\* no respond request has arrived so far
NoRespondYet == \A r \in Reqs : req[r].pc = "idle"

(***************************************************************************)
(* C13 (queue building postcondition).                                     *)
(***************************************************************************)
\* C13 as claimed: at the moment creation completes successfully for a shift
\* with candidates, there is exactly one entry per candidate, every entry is
\* pending with the same deadline (24 hours after creation) and the shift
\* is in_queue.
QueueBuilt(s) ==
  /\ OnePerCandidate(s)
  /\ SharedDeadline(s)
  /\ \A i \in EntriesOf(s) : fcfs_queue[i].status = "pending"
  /\ shifts[s].status = "in_queue"

C13_QueueBuilt ==
  [][\A c \in Creates :
       (c \notin CreatedOk /\ (c \in CreatedOk)') => QueueBuilt(cr[c].shift_id)']_vars

\* C13 as amended: one entry per candidate and the shared deadline hold
\* from the moment creation has completed successfully; the entries are all
\* pending and the shift is in_queue as long as no respond call has arrived.
C13_QueueBuiltUntouched ==
  \A c \in CreatedOk :
    LET s == cr[c].shift_id
    IN  /\ OnePerCandidate(s)
        /\ SharedDeadline(s)
        /\ NoRespondYet =>
             /\ \A i \in EntriesOf(s) : fcfs_queue[i].status = "pending"
             /\ shifts[s].status = "in_queue"

\* a completed creation with two pending entries, before any respond call
C13_Witness ==
  \E c \in CreatedOk :
    /\ NoRespondYet
    /\ Cardinality(EntriesOf(cr[c].shift_id)) = 2
    /\ \A i \in EntriesOf(cr[c].shift_id) : fcfs_queue[i].status = "pending"
    /\ shifts[cr[c].shift_id].status = "in_queue"

(***************************************************************************)
(* C14 (batch atomicity): once a creation request has ended, in success or *)
(* in failure, its shift has an entry for every candidate or for none,     *)
(* never for a non-empty proper subset of them.  The code violates it.     *)
(***************************************************************************)
QueuedUsers(s) == {fcfs_queue[i].user_id : i \in EntriesOf(s)}

C14_BatchAtomic ==
  \A c \in Creates :
    (cr[c].pc = "done" /\ cr[c].shift_id \in ShiftIds) =>
      QueuedUsers(cr[c].shift_id) \in {{}, EligibleSet(cr[c].shift_id)}

(***************************************************************************)
(* C15 (zero eligible candidates): a shift that has no candidate gets no   *)
(* queue entry and keeps status available.  The code violates it.          *)
(***************************************************************************)
C15_EmptyQueueStaysAvailable ==
  \A s \in ShiftIds :
    EligibleSet(s) = {} => EntriesOf(s) = {} /\ shifts[s].status = "available"

(***************************************************************************)
(* C16 (eligibility): only candidates of a shift (active, of the shift's   *)
(* department, not its creator) ever get an entry, and once the queue      *)
(* loop of the creation request has run to its end every candidate has     *)
(* one, whatever their skills and experience.                              *)
(***************************************************************************)
\* shifts whose creation request has left the queue loop normally
LoopDone ==
  {cr[c].shift_id : c \in {x \in Creates : \/ cr[x].pc \in {"in_queue", "audit"}
                                          \/ cr[x].outcome = "success"}}

C16_EligibleAreQueued ==
  \A s \in ShiftIds :
    /\ QueuedUsers(s) \subseteq EligibleSet(s)
    /\ shifts[s].created_by \notin QueuedUsers(s)
    /\ s \in LoopDone => QueuedUsers(s) = EligibleSet(s)

\* a candidate without the required skill and with too little experience is
\* queued, while the creator and the inactive member of another department
\* are not
C16_Witness ==
  \E s \in LoopDone :
    \E u \in QueuedUsers(s) :
      /\ MatchingSkills(OrEmpty(users[u].skills), OrEmpty(shifts[s].required_skills)) = 0
      /\ users[u].seniority_years < shifts[s].min_experience_years
      /\ \E v \in UserIds \ QueuedUsers(s) : v # shifts[s].created_by /\ ~users[v].is_active
      /\ users[shifts[s].created_by].department_id = shifts[s].department_id

(***************************************************************************)
(* C17 (best-effort notification): a request in which only a notification  *)
(* insert or a broadcast failed has made its state transition in full and  *)
(* reports success: a creation has queued every candidate and put the      *)
(* shift in_queue, a respond has kept its writes.  The code violates it.   *)
(***************************************************************************)
C17_BestEffortNotification ==
  /\ \A c \in Creates :
       cr[c].failedAt \in {"notify", "broadcast"} =>
         /\ cr[c].outcome = "success"
         /\ QueuedUsers(cr[c].shift_id) = EligibleSet(cr[c].shift_id)
         /\ shifts[cr[c].shift_id].status \in {"in_queue", "assigned"}
  /\ \A a \in responses :
       a.failedAt = "broadcast" => a.outcome = "success" /\ a.wrote

\* the part of C17 that the code keeps: a failed broadcast undoes nothing
BroadcastFailureKeepsWrites ==
  /\ \A c \in Creates :
       cr[c].failedAt = "broadcast" =>
         /\ QueuedUsers(cr[c].shift_id) = EligibleSet(cr[c].shift_id)
         /\ shifts[cr[c].shift_id].status \in {"in_queue", "assigned"}
  /\ \A a \in responses : a.failedAt = "broadcast" => a.wrote

(***************************************************************************)
(* C18 (shift lifecycle): in every step a shift keeps its status or moves  *)
(* from available to in_queue or from in_queue to assigned, and a shift    *)
(* that is assigned is not written again.  The code violates it.           *)
(***************************************************************************)
C18_ShiftLifecycle ==
  [][\A s \in ShiftIds :
       /\ \/ shifts'[s].status = shifts[s].status
          \/ shifts[s].status = "available" /\ shifts'[s].status = "in_queue"
          \/ shifts[s].status = "in_queue" /\ shifts'[s].status = "assigned"
       /\ shifts[s].status = "assigned" =>
            /\ shifts'[s] = shifts[s]
            /\ \A r \in Reqs : ~(req[r].pc = "assignShift" /\ req'[r].pc = "readQueue"
                                   /\ req[r].shift_id = s)]_vars

\* the order of the statuses alone
StatusOrderOnly ==
  [][\A s \in ShiftIds :
       \/ shifts'[s].status = shifts[s].status
       \/ shifts[s].status = "available" /\ shifts'[s].status = "in_queue"
       \/ shifts[s].status = "in_queue" /\ shifts'[s].status = "assigned"]_vars

(***************************************************************************)
(* Vocabulary of the properties of scoring.  The terms of the score are    *)
(* written from the rule of the design, in hundredths of a point, without  *)
(* the operators of calculateFCFSScore.                                    *)
(***************************************************************************)
ScoreCalls == {scoring.calls[k] : k \in 1..Len(scoring.calls)}

\* whole days between the candidate's last shift and time t
WholeDays(t) ==
  CHOOSE d \in -2..200 :
    /\ d * HoursPerDay <= t - scoring.user.last_shift_date[1]
    /\ t - scoring.user.last_shift_date[1] < (d + 1) * HoursPerDay

RestTerm(t) ==
  IF scoring.user.last_shift_date = <<>> THEN 2000
  ELSE IF 20 * WholeDays(t) < 2000 THEN 20 * WholeDays(t) ELSE 2000

\* number of required skills, and number of the candidate's skills that are
\* required
RequiredCount == Len(OrEmpty(scoring.shift.required_skills))
MatchCount ==
  LET have == OrEmpty(scoring.user.skills)
      want == OrEmpty(scoring.shift.required_skills)
  IN  Cardinality({i \in DOMAIN have : \E j \in DOMAIN want : have[i] = want[j]})

\* h is x / d rounded to the nearest whole number (halves go up)
IsRounded(h, x, d) == 2 * h * d - d <= 2 * x /\ 2 * x < 2 * h * d + d

\* the records of the two tests and of scenario 1
IsInput(seniority, last, skills, required) ==
  /\ scoring.user = [seniority_years |-> seniority, last_shift_date |-> last,
                     skills |-> << skills >>]
  /\ scoring.shift = [required_skills |-> << required >>]

(***************************************************************************)
(* C19 (score formula): every call returns, rounded to two decimals,       *)
(* seniority * 3 + (20 if the candidate never worked, else                 *)
(* min(0.2 * whole days since the last shift, 20)) + (25 * matching /      *)
(* required if a skill is required, else 0) + 25, a missing or null skill  *)
(* list counting as empty; on the records of the tests and of scenario 1   *)
(* it returns 53.9, 76, 66.4 and 51.                                       *)
(***************************************************************************)
C19_ScoreFormula ==
  \A call \in ScoreCalls :
    LET base == 300 * scoring.user.seniority_years + RestTerm(call.t) + 2500
    IN  /\ IF RequiredCount >= 1
           THEN IsRounded(call.score, base * RequiredCount + 2500 * MatchCount,
                          RequiredCount)
           ELSE call.score = base
        /\ call.t = 0 =>
             /\ IsInput(5, <<0 - 7 * HoursPerDay>>, <<"ICU", "Emergency">>,
                        <<"ICU", "Pediatric">>) => call.score = 5390
             /\ IsInput(2, <<>>, <<"General">>, <<"General">>) => call.score = 7600
             /\ IsInput(5, <<0 - 7 * HoursPerDay>>, <<"ICU", "Emergency">>, <<"ICU">>)
                  => call.score = 6640
             /\ IsInput(2, <<>>, <<"General">>, <<"ICU">>) => call.score = 5100

\* the call of the first test: 5 years, 7 days of rest, one of two skills
C19_Witness ==
  \E call \in ScoreCalls :
    /\ call.t = 0
    /\ IsInput(5, <<0 - 7 * HoursPerDay>>, <<"ICU", "Emergency">>, <<"ICU", "Pediatric">>)
    /\ call.score = 5390

(***************************************************************************)
(* C20 (scoring determinism).                                              *)
(***************************************************************************)
\* C20 as claimed: two calls on the same records return the same score,
\* whenever they are made.
C20_SameScoreWhenever ==
  \A a, b \in ScoreCalls : a.score = b.score

\* C20 as amended: two calls on the same records return the same score if
\* the candidate never worked, or if the whole days since the last shift
\* are the same at both calls or at least 100 (the cap) at both; and a call
\* changes no stored state.
SameRest(a, b) ==
  \/ scoring.user.last_shift_date = <<>>
  \/ WholeDays(a.t) = WholeDays(b.t)
  \/ WholeDays(a.t) >= 100 /\ WholeDays(b.t) >= 100

C20_SameScoreSameDays ==
  /\ [](\A a, b \in ScoreCalls : SameRest(a, b) => a.score = b.score)
  /\ [][scoring' # scoring => UNCHANGED <<store, now, req, responses, cr>>]_vars

\* two calls half a day apart within the same whole day, with equal scores
C20_Witness ==
  \E a, b \in ScoreCalls :
    /\ a.t # b.t
    /\ scoring.user.last_shift_date # <<>>
    /\ WholeDays(a.t) = WholeDays(b.t)
    /\ WholeDays(a.t) < 100
    /\ a.score = b.score

(***************************************************************************)
(* C21 (token verification outcome): a call of verifyGoogleToken that has  *)
(* ended either returned a payload with an email and a sub, or rejected    *)
(* with 'Token verification failed'; it rejected whenever the response was *)
(* not OK, the payload lacked email or sub, the network failed or the      *)
(* timeout struck; and it returned without contacting Google only for the  *)
(* token 'dev-token' under NODE_ENV 'development'.                         *)
(***************************************************************************)
C21_VerifyOutcome ==
  verify.pc = "done" =>
    /\ \/ /\ verify.result.kind = "returned"
          /\ ~Falsy(verify.result.data.email)
          /\ ~Falsy(verify.result.data.sub)
       \/ /\ verify.result.kind = "rejected"
          /\ verify.result.message = "Token verification failed"
    /\ verify.seen # {} => verify.result.kind = "rejected"
    /\ (Falsy(verify.result.data.email) \/ Falsy(verify.result.data.sub))
         => verify.result.kind = "rejected"
    /\ ~verify.contacted =>
         /\ verify.token = "dev-token"
         /\ verify.NODE_ENV = "development"
         /\ verify.result.kind = "returned"

\* the fixed token in production: Google is asked, and its refusal rejects
C21_Witness ==
  /\ verify.pc = "done"
  /\ verify.token = "dev-token"
  /\ verify.NODE_ENV = "production"
  /\ verify.contacted
  /\ verify.seen = {"not_ok"}
  /\ verify.result.kind = "rejected"

(***************************************************************************)
(* C22 (deadline boundary): a call by the owner of a pending entry that    *)
(* arrives at a time exactly equal to the entry's response_deadline.       *)
(***************************************************************************)
AtDeadlineCall(u, queue_id) ==
  /\ queue_id \in EntryIds
  /\ fcfs_queue[queue_id].user_id = u
  /\ fcfs_queue[queue_id].status = "pending"
  /\ fcfs_queue[queue_id].response_deadline = now

\* C22 as claimed: such a call is rejected with DeadlinePassed.
C22_AtDeadlineRejected ==
  [][\A r \in Reqs, u \in Callers, queue_id \in EntryIds, response \in {"accept", "decline"} :
       (AtDeadlineCall(u, queue_id) /\ Respond(r, u, queue_id, response)) =>
         /\ req'[r].pc = "done"
         /\ \E a \in responses' : /\ a.user_id = u
                                  /\ a.queue_id = queue_id
                                  /\ a.outcome = "DeadlinePassed"]_vars

\* C22 as amended: such a call passes the deadline check and goes on to its
\* next step; DeadlinePassed is the answer only strictly after the deadline.
C22_AtDeadlineProcessed ==
  [][\A r \in Reqs, u \in Callers, queue_id \in EntryIds, response \in {"accept", "decline"} :
       (AtDeadlineCall(u, queue_id) /\ Respond(r, u, queue_id, response)) =>
         /\ req'[r].pc = (IF response = "accept" THEN "getShift" ELSE "decline")
         /\ responses' = responses]_vars

\* a call that arrived exactly at the deadline has made its writes
C22_Witness ==
  \E r \in Reqs :
    /\ req[r].pc = "audit"
    /\ req[r].atDeadline
    /\ req[r].wrote
    /\ fcfs_queue[req[r].queue_id].response_deadline <= now

(***************************************************************************)
(* C23 (queue builder and response resolver on one shift).                 *)
(***************************************************************************)
\* C23 as claimed: an entry exists only for a shift that is in_queue or
\* assigned, so that no respond call finds an entry of a shift whose queue
\* is still being built.
C23_EntriesOnlyWhenQueued ==
  \A i \in EntryIds : shifts[fcfs_queue[i].shift_id].status \in {"in_queue", "assigned"}

\* creation requests that are inside the queue loop or stopped inside it
Building ==
  {cr[c].shift_id : c \in {x \in Creates : \/ cr[x].pc \in {"add", "notify", "in_queue"}
                                          \/ cr[x].failedAt \in {"add", "notify", "in_queue"}}}

\* C23 as amended: entries of a shift that is still available exist only
\* while its creation request is inside the queue loop (or after it stopped
\* there); while the shift is available no accept writes anything, and an
\* accept that has written leaves a shift that is not available.
C23_NoAcceptWhileBuilding ==
  /\ \A i \in EntryIds :
       shifts[fcfs_queue[i].shift_id].status = "available" => fcfs_queue[i].shift_id \in Building
  /\ \A r \in Reqs :
       req[r].pc \in {"acceptEntry", "assignShift", "readQueue", "cascade"} =>
         shifts[req[r].shift_id].status # "available"
  /\ \A a \in responses :
       (a.response = "accept" /\ a.wrote) => shifts[a.shift_id].status # "available"

\* an accept that came while the queue was being built was turned away, and
\* the entry is still pending
C23_Witness ==
  \E a \in responses :
    /\ a.response = "accept"
    /\ a.outcome = "ShiftAlreadyAssigned"
    /\ shifts[a.shift_id].status = "available"
    /\ fcfs_queue[a.queue_id].status = "pending"

\* a decline that came while the queue was being built was carried out
DeclinedWhileBuilding ==
  \E a \in responses :
    /\ a.response = "decline"
    /\ a.outcome = "success"
    /\ shifts[a.shift_id].status = "available"

(***************************************************************************)
(* C24 (no expiry by the passing of time).                                 *)
(***************************************************************************)
\* an accept on shift s was answered with success
AcceptSucceeded(s) ==
  \E a \in responses : a.response = "accept" /\ a.shift_id = s /\ a.outcome = "success"

\* an accept on shift s is still at work
AcceptInFlight(s) ==
  \E r \in Reqs : InFlightOn(req[r], s) /\ req[r].response = "accept"

\* C24: as long as no accept on a shift has succeeded (and none is still at
\* work), the shift is not assigned and none of its entries is expired,
\* however far the clock has advanced.
C24_NoExpiryWithoutSuccess ==
  \A s \in ShiftIds :
    (~AcceptSucceeded(s) /\ ~AcceptInFlight(s)) =>
      /\ shifts[s].status # "assigned"
      /\ \A i \in EntriesOf(s) : fcfs_queue[i].status # "expired"

\* The part of C24 about time: the clock changes nothing in the store, an
\* entry becomes expired only in the cascade step of an accept on a sibling
\* entry, and a shift leaves in_queue only in the assign step of an accept.
NoTimerExpiry ==
  [][/\ now' # now => store' = store
     /\ \A i \in EntryIds :
          (fcfs_queue[i].status # "expired" /\ fcfs_queue'[i].status = "expired") =>
            \E r \in Reqs : /\ req[r].pc = "cascade"
                            /\ req[r].response = "accept"
                            /\ Head(req[r].todo) = i
                            /\ req[r].queue_id # i
                            /\ fcfs_queue[i].shift_id = req[r].shift_id
     /\ \A s \in ShiftIds :
          (shifts[s].status = "in_queue" /\ shifts'[s].status # "in_queue") =>
            \E r \in Reqs : /\ req[r].pc = "assignShift"
                            /\ req[r].shift_id = s
                            /\ shifts'[s].status = "assigned"]_vars

\* every deadline has passed and the shift is still in_queue with a pending entry
OverdueStillPending ==
  \E i \in EntryIds : /\ fcfs_queue[i].status = "pending"
                       /\ fcfs_queue[i].response_deadline < now
                       /\ shifts[fcfs_queue[i].shift_id].status = "in_queue"

(***************************************************************************)
(* C25 (a respond call runs to one outcome).                               *)
(***************************************************************************)
Outcomes == {"success", "fatal"} \cup Rejections

\* the next step of a respond call in progress, whichever it is
OwnStep(r) ==
  \/ GetShift(r) \/ AcceptEntry(r) \/ AssignShift(r) \/ ReadQueue(r) \/ Cascade(r)
  \/ Decline(r) \/ \E broadcastOk \in BOOLEAN : RespondAudit(r, broadcastOk)

\* number of steps a respond call has left at most
StepsLeft(h) ==
  CASE h.pc = "getShift" -> Len(UserOrder) + 5
    [] h.pc = "acceptEntry" -> Len(UserOrder) + 4
    [] h.pc = "assignShift" -> Len(UserOrder) + 3
    [] h.pc = "readQueue" -> Len(UserOrder) + 2
    [] h.pc = "cascade" -> Len(h.todo) + 1
    [] h.pc = "decline" -> 2
    [] h.pc = "audit" -> 1
    [] OTHER -> 0

\* the program state of a respond call (its history field before is written
\* by the arrival of other calls)
Locals(h) == [h EXCEPT !.before = <<>>]

\* C25: a respond call in progress always has a step it can take whatever
\* the other requests are doing, each of its steps brings it nearer to its
\* end, it ends with exactly one answer, which is success, one of the four
\* failures or fatal, and a call that has ended does nothing more.
C25_RespondTerminates ==
  /\ [](\A r \in Reqs : req[r].pc \notin {"idle", "done"} => ENABLED OwnStep(r))
  /\ [](\A a \in responses : a.outcome \in Outcomes)
  /\ [][\A r \in Reqs :
          /\ (req[r].pc \notin {"idle", "done"} /\ Locals(req'[r]) # Locals(req[r])) =>
               /\ StepsLeft(req'[r]) < StepsLeft(req[r])
               /\ req'[r].pc = "done" =>
                    \E a \in responses' : /\ a.user_id = req[r].user_id
                                          /\ a.queue_id = req[r].queue_id
                                          /\ a.response = req[r].response
               /\ req'[r].pc # "done" => responses' = responses
          /\ (req[r].pc = "idle" /\ req'[r].pc = "done") => responses' # {}
          /\ req[r].pc = "done" => req'[r] = req[r]
          /\ responses \subseteq responses']_vars

\* both calls have ended, one with success and one, after writing, with the
\* fatal outcome
C25_Witness ==
  /\ AllAnswered
  /\ \E a, b \in responses : /\ a.outcome = "success"
                              /\ b.outcome = "fatal" /\ b.wrote

(***************************************************************************)
(* C26 (stable assignment).                                                *)
(***************************************************************************)
\* respond call r writes shift s in this step
WritesShift(r, s) ==
  req[r].pc = "assignShift" /\ req[r].shift_id = s /\ req'[r].pc = "readQueue"

\* C26: once an accept has set the assigned user of a shift, no step of any
\* respond call changes the assigned user or writes the shift again.
C26_StableAssignment ==
  [][\A s \in ShiftIds :
       shifts[s].assigned_user_id # "none" =>
         /\ shifts'[s].assigned_user_id = shifts[s].assigned_user_id
         /\ \A r \in Reqs : ~WritesShift(r, s)]_vars

(***************************************************************************)
(* C27 (an assigned shift and its accepted entry).                         *)
(***************************************************************************)
AcceptedOf(s) == {i \in EntriesOf(s) : fcfs_queue[i].status = "accepted"}

\* C27: whenever no respond call is in progress, a shift that is assigned
\* has exactly one accepted entry, and that entry belongs to the assigned
\* user.
C27_AssignedHasOneAccepted ==
  (\A r \in Reqs : req[r].pc \in {"idle", "done"}) =>
    \A s \in ShiftIds :
      shifts[s].status = "assigned" =>
        /\ Cardinality(AcceptedOf(s)) = 1
        /\ \A i \in AcceptedOf(s) : fcfs_queue[i].user_id = shifts[s].assigned_user_id

(***************************************************************************)
(* C29 (score bounds).                                                     *)
(***************************************************************************)
\* C29: for every candidate and shift, repeated skills and a last shift in
\* the future included, the rest term lies between 0 and 20, the skill term
\* between 0 and 25, and the score between 25 and 3 * seniority + 70
\* (scores and terms in hundredths).
C29_ScoreBounds ==
  \A call \in ScoreCalls :
    /\ 0 <= RestTerm(call.t) /\ RestTerm(call.t) <= 2000
    /\ RequiredCount > 0 => 2500 * MatchCount <= 2500 * RequiredCount
    /\ 2500 <= call.score
    /\ call.score <= 300 * scoring.user.seniority_years + 7000

\* the bounds for candidates whose skill list has no repeated skill and
\* whose last shift is not in the future
PlainInput(t) ==
  /\ \A i, j \in DOMAIN OrEmpty(scoring.user.skills) :
       OrEmpty(scoring.user.skills)[i] = OrEmpty(scoring.user.skills)[j] => i = j
  /\ scoring.user.last_shift_date # <<>> => scoring.user.last_shift_date[1] <= t

ScoreBoundsPlain ==
  \A call \in ScoreCalls :
    PlainInput(call.t) =>
      /\ 2500 <= call.score
      /\ call.score <= 300 * scoring.user.seniority_years + 7000

\* a score above the upper bound, from a repeated skill
ScoreAboveBound ==
  \E call \in ScoreCalls : call.score > 300 * scoring.user.seniority_years + 7000

\* a score below the lower bound, from a last shift in the future
ScoreBelowBound ==
  \E call \in ScoreCalls : call.score < 2500

(***************************************************************************)
(* C30 (who changes a role).                                               *)
(***************************************************************************)
\* the sign-in rule gives account e its role in this step
BySignInRule(e) ==
  /\ accounts.request.pc = "idle"
  /\ \/ accounts.roles[e] = "none" /\ accounts'.roles[e] = "staff"
     \/ e = "admin@hospital.dev" /\ accounts'.roles[e] = "admin"

\* a request made by an administrator on POST /api/users or
\* PUT /api/users/:id gives account e its role in this step
ByAdminRequest(e) ==
  /\ accounts.request.pc = "handler"
  /\ accounts.request.role = "admin"
  /\ accounts.request.route \in {"POST /api/users", "PUT /api/users/:id"}
  /\ accounts.request.target = e
  /\ accounts'.roles[e] = accounts.request.body_role

\* C30: the role of an account is set or changed only by a request of an
\* administrator on POST /api/users or PUT /api/users/:id, or by the sign-in
\* rule (default role for a new account, admin for admin@hospital.dev); a
\* PUT /api/users/me made by a staff or supervisor user changes no role.
C30_RoleChangeOnlyByAdmin ==
  [][/\ \A e \in Accounts :
          accounts'.roles[e] # accounts.roles[e] => BySignInRule(e) \/ ByAdminRequest(e)
     /\ (/\ accounts.request.pc = "handler"
         /\ accounts.request.route = "PUT /api/users/me"
         /\ accounts.request.role \in {"staff", "supervisor"}) =>
           accounts'.roles = accounts.roles]_vars

\* The same for every route but PUT /api/users/me
RoleChangeElsewhere ==
  [][\A e \in Accounts :
       (/\ accounts'.roles[e] # accounts.roles[e]
        /\ ~(accounts.request.pc = "handler" /\ accounts.request.route = "PUT /api/users/me")) =>
          BySignInRule(e) \/ ByAdminRequest(e)]_vars

\* an account that was seeded as staff is an administrator
StaffBecameAdmin == accounts.roles["nurse@hospital.dev"] = "admin"

(***************************************************************************)
(* C28 (no double-booking).                                                *)
(***************************************************************************)
\* the time windows of shifts s and t have an hour in common
Overlap(s, t) ==
  shifts[s].start_time < shifts[t].end_time /\ shifts[t].start_time < shifts[s].end_time

\* C28: no user is the assigned user of two shifts whose time windows
\* overlap, and once a user's accept has assigned one shift to them, none of
\* their entries for an overlapping shift is accepted.
C28_NoDoubleBooking ==
  \A s, t \in ShiftIds :
    (s # t /\ Overlap(s, t) /\ shifts[s].assigned_user_id # "none") =>
      /\ shifts[t].assigned_user_id # shifts[s].assigned_user_id
      /\ \A i \in EntriesOf(t) :
           fcfs_queue[i].user_id = shifts[s].assigned_user_id =>
             fcfs_queue[i].status # "accepted"

\* one user holds two shifts whose windows do not overlap
BookedBackToBack ==
  \E s, t \in ShiftIds :
    /\ s # t /\ ~Overlap(s, t)
    /\ shifts[s].assigned_user_id # "none"
    /\ shifts[t].assigned_user_id = shifts[s].assigned_user_id

\* one user holds two overlapping shifts after two accepts, one after the
\* other, both answered with success
DoubleBooked ==
  /\ AllAnswered
  /\ \A a \in responses : a.outcome = "success" /\ a.response = "accept"
  /\ \E s, t \in ShiftIds :
       /\ s # t /\ Overlap(s, t)
       /\ shifts[s].assigned_user_id # "none"
       /\ shifts[t].assigned_user_id = shifts[s].assigned_user_id

====
